---- MODULE Spec2Model ----
(***************************************************************************)
(* TumblingAggregatingWindowFunc                                           *)
(* (arroyo-worker/src/arrow/tumbling_aggregating_window.rs).               *)
(*                                                                         *)
(* One operator instance: the bin registry (execs), the feed-channel       *)
(* senders, the two hand-off slots, the durable table "t", the messages    *)
(* sent downstream, and the four callbacks on_start, process_batch,        *)
(* handle_watermark and handle_checkpoint.  Time is in nanoseconds, scaled *)
(* down to small integers.                                                 *)
(***************************************************************************)
EXTENDS Integers, Sequences, FiniteSets, TLC

\* ---------------------------------------------------------------- bounds
MaxWidth == 2      \* window widths 1..MaxWidth
MaxTime == 1       \* event times 0..MaxTime, watermarks 0..MaxTime+1
MaxVal == 2        \* aggregated column values 1..MaxVal
MaxBatch == 2      \* rows per input batch 0..MaxBatch
MaxFeeds == 2      \* process_batch invocations per behaviour
MaxRows == 2       \* input rows per behaviour
MaxRestarts == 1   \* restarts per behaviour

\* Option::None of an Option<SystemTime>, of active_exec, of the receiver slot
NoneT == -1
NoChan == 0

VARIABLES
    width,                  \* self.width (nanoseconds)
    execs,                  \* self.execs : bin -> BinComputingHolder
    senders,                \* self.senders : bin -> channel
    chans,                  \* the open unbounded channels: channel -> batches queued
    receiver,               \* self.receiver hand-off slot
    final_batches_passer,   \* self.final_batches_passer hand-off slot
    table,                  \* the expiring time-key table "t": key time -> state batches
    ctx_watermark,          \* ctx.watermark()
    ctx_last_present,       \* ctx.last_present_watermark()
    status,                 \* "running", or "panicked" / "blocked" once a callback did not return
    collected,              \* what the last callback sent downstream (ctx.collect, ctx.broadcast)
    fed,                    \* history: rows dispatched to each bin of the registry
    restored,               \* history: bins whose registry entry on_start rebuilt
    done,                   \* history: bins this instance finalized before its last callback
    closed_now,             \* history: the finalizations of the last callback, in order
    ckpt,                   \* history: what the last checkpoint recorded
    feeds,                  \* history: process_batch invocations so far
    rows_in,                \* history: input rows so far
    restarts,               \* history: restarts so far
    last                    \* history: the callback that ran last, the finalized bins its
                            \* batch had rows for, the bins whose sender a checkpoint took

vars == <<width, execs, senders, chans, receiver, final_batches_passer, table,
          ctx_watermark, ctx_last_present, status, collected,
          fed, restored, done, closed_now,
          ckpt, feeds, rows_in, restarts, last>>

\* ---------------------------------------------------------------- values
Times == 0..MaxTime
Vals == 1..MaxVal
Rows == [ts : Times, val : Vals]

RECURSIVE SeqsUpTo(_, _)
SeqsUpTo(S, n) ==
    IF n = 0 THEN {<<>>}
    ELSE LET shorter == SeqsUpTo(S, n - 1)
         IN shorter \cup {Append(s, x) : s \in {t \in shorter : Len(t) = n - 1}, x \in S}

Batches == SeqsUpTo(Rows, MaxBatch)

EventTime(t) == [kind |-> "EventTime", t |-> t]
Idle == [kind |-> "Idle", t |-> 0]
NoWatermark == [kind |-> "None", t |-> 0]
Watermarks == {Idle} \cup {EventTime(t) : t \in 0..(MaxTime + 1)}

EmptyMap == [k \in {} |-> 0]

Min(S) == CHOOSE x \in S : \A y \in S : x <= y

Remove(f, k) == [x \in DOMAIN f \ {k} |-> f[x]]

Put(f, k, v) == [x \in DOMAIN f \cup {k} |-> IF x = k THEN v ELSE f[x]]

RECURSIVE Flatten(_)
Flatten(ss) == IF ss = <<>> THEN <<>> ELSE Head(ss) \o Flatten(Tail(ss))

RECURSIVE SumVals(_)
SumVals(rows) == IF rows = <<>> THEN 0 ELSE Head(rows).val + SumVals(Tail(rows))

\* ---------------------------------------------------------------- pipelines
\* The binning expression: bin-id of an event time.
BinningFunction(ts, w) == ts \div w

\* A partial-aggregation execution pulled to completion over the batches of its
\* feed channel: one partial batch <<count, sum>> when it read any row.
PartialAggregate(queued) ==
    LET rows == Flatten(queued)
    IN IF rows = <<>> THEN <<>> ELSE << <<Len(rows), SumVals(rows)>> >>

RECURSIVE MergeCount(_)
MergeCount(batches) == IF batches = <<>> THEN 0 ELSE Head(batches)[1] + MergeCount(Tail(batches))

RECURSIVE MergeSum(_)
MergeSum(batches) == IF batches = <<>> THEN 0 ELSE Head(batches)[2] + MergeSum(Tail(batches))

\* A finish execution pulled to completion over the partial batches in its slot:
\* it reads the first two columns of every batch and yields one final batch.
FinishAggregate(batches) ==
    IF batches = <<>> THEN <<>>
    ELSE << [count |-> MergeCount(batches), sum |-> MergeSum(batches)] >>

\* ---------------------------------------------------------------- table "t"
TableInsert(tbl, key, batch) ==
    Put(tbl, key, IF key \in DOMAIN tbl THEN Append(tbl[key], batch) ELSE <<batch>>)

\* Keys of bins whose window has ended at the watermark are expired.
Visible(key, watermark, w) == watermark = NoneT \/ key + w > watermark

TableFlush(tbl, watermark, w) ==
    [k \in {x \in DOMAIN tbl : Visible(x, watermark, w)} |-> tbl[k]]

AllBatchesForWatermark(tbl, watermark, w) ==
    [k \in {x \in DOMAIN tbl : Visible(x, watermark, w)} |-> tbl[k]]

\* ---------------------------------------------------------------- helpers
time_to_bin(time, w) == time \div w

DefaultHolder == [active_exec |-> NoChan, finished_batches |-> <<>>]

\* entry(bin).or_default()
EntryOrDefault(ex, bin) == IF bin \in DOMAIN ex THEN ex ELSE Put(ex, bin, DefaultHolder)

\* unbounded_channel(): a channel no sender or stream holds yet
FreshChan(chs) == Min({c \in 1..(Cardinality(DOMAIN chs) + 1) : c \notin DOMAIN chs})

\* partial_aggregation_plan.execute(): the new stream takes the channel out of the slot
ExecutePartial(slot) == [stream |-> slot, slot |-> NoChan]

FedOf(f, bin) == IF bin \in DOMAIN f THEN f[bin] ELSE <<>>

ClosedBins == {closed_now[i].bin : i \in 1..Len(closed_now)}

\* Bins this instance has finalized, the last callback's included.
DoneNow == done \cup ClosedBins

\* ---------------------------------------------------------------- process_batch
RECURSIVE InsertSorted(_, _, _)
InsertSorted(idx, i, keys) ==
    IF idx = <<>> THEN <<i>>
    ELSE IF keys[i] < keys[Head(idx)] THEN <<i>> \o idx
    ELSE <<Head(idx)>> \o InsertSorted(Tail(idx), i, keys)

RECURSIVE SortPrefix(_, _)
SortPrefix(keys, n) ==
    IF n = 0 THEN <<>> ELSE InsertSorted(SortPrefix(keys, n - 1), n, keys)

\* sort_to_indices(bin, None, None): ascending, equal keys in input order
sort_to_indices(keys) == SortPrefix(keys, Len(keys))

take(column, indices) == [i \in 1..Len(indices) |-> column[indices[i]]]

\* partition(sorted_bins).ranges(): maximal runs of equal keys, as [start, end)
RECURSIVE PartitionRanges(_, _)
PartitionRanges(keys, start) ==
    IF start > Len(keys) THEN <<>>
    ELSE LET e == CHOOSE j \in start..Len(keys) :
                      /\ \A i \in start..j : keys[i] = keys[start]
                      /\ (j = Len(keys) \/ keys[j + 1] # keys[start])
         IN <<[start |-> start, end |-> e + 1]>> \o PartitionRanges(keys, e + 1)

\* Variant: the slice keeps only the first row of the range.
Slice_FirstRowOnly(sorted, range) == SubSeq(sorted, range.start, range.start)

\* sorted.slice(range.start, range.end - range.start)
Slice(sorted, range) == SubSeq(sorted, range.start, range.end - 1)

\* Variant: a new aggregator is handed a channel that is already open, when there is one.
Dispatch_ReusesChannel(st, bin, bin_batch) ==
    LET ex0 == EntryOrDefault(st.execs, bin)
        c == IF DOMAIN st.chans = {} THEN FreshChan(st.chans) ELSE Min(DOMAIN st.chans)
        taken == ExecutePartial(c)
        st1 == IF ex0[bin].active_exec = NoChan
               THEN [st EXCEPT !.execs = [ex0 EXCEPT ![bin].active_exec = taken.stream],
                               !.senders = Put(st.senders, bin, c),
                               !.chans = IF c \in DOMAIN st.chans THEN st.chans
                                         ELSE Put(st.chans, c, <<>>),
                               !.receiver = taken.slot]
               ELSE [st EXCEPT !.execs = ex0]
    IN IF bin \notin DOMAIN st1.senders \/ st1.senders[bin] \notin DOMAIN st1.chans
       THEN [st1 EXCEPT !.status = "panicked"]
       ELSE [st1 EXCEPT !.chans[st1.senders[bin]] = Append(@, bin_batch)]

\* The body of the loop over the ranges, for one range.
Dispatch(st, bin, bin_batch) ==
    LET ex0 == EntryOrDefault(st.execs, bin)
        c == FreshChan(st.chans)
        taken == ExecutePartial(c)
        st1 == IF ex0[bin].active_exec = NoChan
               THEN [st EXCEPT !.execs = [ex0 EXCEPT ![bin].active_exec = taken.stream],
                               !.senders = Put(st.senders, bin, c),
                               !.chans = Put(st.chans, c, <<>>),
                               !.receiver = taken.slot]
               ELSE [st EXCEPT !.execs = ex0]
    IN IF bin \notin DOMAIN st1.senders \/ st1.senders[bin] \notin DOMAIN st1.chans
       THEN [st1 EXCEPT !.status = "panicked"]
       ELSE [st1 EXCEPT !.chans[st1.senders[bin]] = Append(@, bin_batch)]

RECURSIVE DispatchRanges(_, _, _, _)
DispatchRanges(st, ranges, sorted, sorted_bins) ==
    IF ranges = <<>> \/ st.status # "running" THEN st
    ELSE DispatchRanges(Dispatch(st, sorted_bins[Head(ranges).start], Slice(sorted, Head(ranges))),
                        Tail(ranges), sorted, sorted_bins)

ProcessBatchResult(batch) ==
    LET bin == [i \in 1..Len(batch) |-> BinningFunction(batch[i].ts, width)]
        indices == sort_to_indices(bin)
        sorted == take(batch, indices)
        sorted_bins == take(bin, indices)
        ranges == PartitionRanges(sorted_bins, 1)
    IN DispatchRanges([execs |-> execs, senders |-> senders, chans |-> chans,
                       receiver |-> receiver, status |-> "running"],
                      ranges, sorted, sorted_bins)

\* History: every input row is appended, in arrival order, to the rows of its bin.
FedAfter(batch) ==
    LET bins == {BinningFunction(batch[i].ts, width) : i \in 1..Len(batch)}
    IN [b \in DOMAIN fed \cup bins |->
           FedOf(fed, b) \o SelectSeq(batch, LAMBDA r : BinningFunction(r.ts, width) = b)]

ProcessBatch(batch) ==
    /\ status = "running"
    /\ feeds < MaxFeeds
    /\ rows_in + Len(batch) <= MaxRows
    /\ LET r == ProcessBatchResult(batch)
       IN /\ execs' = r.execs
          /\ senders' = r.senders
          /\ chans' = r.chans
          /\ receiver' = r.receiver
          /\ status' = r.status
    /\ fed' = FedAfter(batch)
    /\ collected' = <<>>
    /\ closed_now' = <<>>
    /\ done' = DoneNow
    /\ feeds' = feeds + 1
    /\ rows_in' = rows_in + Len(batch)
    /\ last' = [op |-> "process_batch",
                late |-> {b \in DoneNow : b \notin DOMAIN execs
                                          /\ \E i \in 1..Len(batch) : BinningFunction(batch[i].ts, width) = b},
                keys |-> {}]
    /\ UNCHANGED <<width, final_batches_passer, table, ctx_watermark, ctx_last_present,
                   restored, ckpt, restarts>>

\* ---------------------------------------------------------------- handle_watermark
\* (to_nanos(*watermark) / self.width.as_nanos()) as usize
WatermarkBin(t, w) == t \div w

\* Variant: the bin the watermark falls in is closed too.
ShouldPop_Inclusive(first_bin, bin) == first_bin <= bin

ShouldPop(first_bin, bin) == first_bin < bin

IsEventTime(watermark) == watermark.kind = "EventTime"

\* Variant: the synthesized event time is the window end itself.
WithWindow_EndStamp(batch, popped_bin, w) ==
    LET bin_start == popped_bin * w
        bin_end == bin_start + w
    IN [kind |-> "batch", agg |-> batch,
        window |-> [start |-> bin_start, end |-> bin_end], timestamp |-> bin_end]

\* The batch handed to ctx.collect for one batch of the finish execution.
WithWindow(batch, popped_bin, w) ==
    LET bin_start == popped_bin * w
        bin_end == bin_start + w
        timestamp == bin_end - 1
    IN [kind |-> "batch", agg |-> batch,
        window |-> [start |-> bin_start, end |-> bin_end], timestamp |-> timestamp]

WatermarkSignal(watermark) == [kind |-> "watermark", watermark |-> watermark]

\* A stream pulled to completion ends once no sender of its channel is left.
HasSender(snd, c) == \E b \in DOMAIN snd : snd[b] = c

\* Variant: the sender of the popped bin is still registered when the drain starts.
PopFirst_KeepsSender(st, popped_bin, t) ==
    LET exec == st.execs[popped_bin]
        c == exec.active_exec
        execs1 == Remove(st.execs, popped_bin)
        senders1 == st.senders
        finished_batches ==
            IF c # NoChan THEN exec.finished_batches \o PartialAggregate(st.chans[c])
            ELSE exec.finished_batches
        final == FinishAggregate(finished_batches)
        rows == [i \in 1..Len(final) |-> WithWindow(final[i], popped_bin, width)]
        entry == [bin |-> popped_bin, fed |-> FedOf(st.fed, popped_bin), agg |-> final,
                  restored |-> popped_bin \in st.restored, wm |-> t]
    IN IF c # NoChan /\ popped_bin \notin DOMAIN st.senders
       THEN [st EXCEPT !.execs = execs1, !.status = "panicked"]
       ELSE IF c # NoChan /\ HasSender(senders1, c)
       THEN [st EXCEPT !.execs = execs1, !.senders = senders1, !.status = "blocked"]
       ELSE [st EXCEPT !.execs = execs1,
                       !.senders = senders1,
                       !.chans = IF c # NoChan THEN Remove(@, c) ELSE @,
                       !.passer = finished_batches,
                       !.rows = @ \o rows,
                       !.closed = Append(@, entry),
                       !.fed = Remove(@, popped_bin),
                       !.restored = @ \ {popped_bin}]

\* Variant: the batches drained now replace the ones a checkpoint left buffered.
PopFirst_DrainedOnly(st, popped_bin, t) ==
    LET exec == st.execs[popped_bin]
        c == exec.active_exec
        execs1 == Remove(st.execs, popped_bin)
        senders1 == IF c # NoChan THEN Remove(st.senders, popped_bin) ELSE st.senders
        finished_batches ==
            IF c # NoChan THEN PartialAggregate(st.chans[c]) ELSE exec.finished_batches
        final == FinishAggregate(finished_batches)
        rows == [i \in 1..Len(final) |-> WithWindow(final[i], popped_bin, width)]
        entry == [bin |-> popped_bin, fed |-> FedOf(st.fed, popped_bin), agg |-> final,
                  restored |-> popped_bin \in st.restored, wm |-> t]
    IN IF c # NoChan /\ popped_bin \notin DOMAIN st.senders
       THEN [st EXCEPT !.execs = execs1, !.status = "panicked"]
       ELSE IF c # NoChan /\ HasSender(senders1, c)
       THEN [st EXCEPT !.execs = execs1, !.senders = senders1, !.status = "blocked"]
       ELSE [st EXCEPT !.execs = execs1,
                       !.senders = senders1,
                       !.chans = IF c # NoChan THEN Remove(@, c) ELSE @,
                       !.passer = finished_batches,
                       !.rows = @ \o rows,
                       !.closed = Append(@, entry),
                       !.fed = Remove(@, popped_bin),
                       !.restored = @ \ {popped_bin}]

\* The body of the closing loop for the popped entry.
PopFirst(st, popped_bin, t) ==
    LET exec == st.execs[popped_bin]
        c == exec.active_exec
        execs1 == Remove(st.execs, popped_bin)
        senders1 == IF c # NoChan THEN Remove(st.senders, popped_bin) ELSE st.senders
        finished_batches ==
            IF c # NoChan THEN exec.finished_batches \o PartialAggregate(st.chans[c])
            ELSE exec.finished_batches
        final == FinishAggregate(finished_batches)
        rows == [i \in 1..Len(final) |-> WithWindow(final[i], popped_bin, width)]
        entry == [bin |-> popped_bin, fed |-> FedOf(st.fed, popped_bin), agg |-> final,
                  restored |-> popped_bin \in st.restored, wm |-> t]
    IN IF c # NoChan /\ popped_bin \notin DOMAIN st.senders
       THEN [st EXCEPT !.execs = execs1, !.status = "panicked"]
       ELSE IF c # NoChan /\ HasSender(senders1, c)
       THEN [st EXCEPT !.execs = execs1, !.senders = senders1, !.status = "blocked"]
       ELSE [st EXCEPT !.execs = execs1,
                       !.senders = senders1,
                       !.chans = IF c # NoChan THEN Remove(@, c) ELSE @,
                       !.passer = finished_batches,
                       !.rows = @ \o rows,
                       !.closed = Append(@, entry),
                       !.fed = Remove(@, popped_bin),
                       !.restored = @ \ {popped_bin}]

\* Variant: the call closes the first bin behind the watermark and stops.
CloseLoop_OnePop(st, bin, t) ==
    IF DOMAIN st.execs = {} \/ st.status # "running" THEN st
    ELSE LET first_bin == Min(DOMAIN st.execs)
         IN IF ShouldPop(first_bin, bin) THEN PopFirst(st, first_bin, t) ELSE st

RECURSIVE CloseLoop(_, _, _)
CloseLoop(st, bin, t) ==
    IF DOMAIN st.execs = {} \/ st.status # "running" THEN st
    ELSE LET first_bin == Min(DOMAIN st.execs)
         IN IF ShouldPop(first_bin, bin) THEN CloseLoop(PopFirst(st, first_bin, t), bin, t)
            ELSE st

\* Variant: the watermark is broadcast before the rows of the closed bins.
Forwarded_WatermarkFirst(rows, watermark) == <<WatermarkSignal(watermark)>> \o rows

\* What the callback sends downstream: the rows of the closed bins, then the watermark.
Forwarded(rows, watermark) == Append(rows, WatermarkSignal(watermark))

\* Variant: an Idle watermark closes every bin of the registry.
HandleWatermarkResult_IdleCloses(watermark) ==
    LET st0 == [execs |-> execs, senders |-> senders, chans |-> chans,
                passer |-> final_batches_passer, rows |-> <<>>, closed |-> <<>>,
                fed |-> fed, restored |-> restored, status |-> "running"]
    IN IF IsEventTime(watermark)
       THEN CloseLoop(st0, WatermarkBin(watermark.t, width), watermark.t)
       ELSE CloseLoop(st0, MaxTime + 1, MaxTime + 1)

HandleWatermarkResult(watermark) ==
    LET st0 == [execs |-> execs, senders |-> senders, chans |-> chans,
                passer |-> final_batches_passer, rows |-> <<>>, closed |-> <<>>,
                fed |-> fed, restored |-> restored, status |-> "running"]
    IN IF IsEventTime(watermark)
       THEN CloseLoop(st0, WatermarkBin(watermark.t, width), watermark.t)
       ELSE st0

HandleWatermark(watermark) ==
    /\ status = "running"
    /\ LET r == HandleWatermarkResult(watermark)
       IN /\ execs' = r.execs
          /\ senders' = r.senders
          /\ chans' = r.chans
          /\ final_batches_passer' = r.passer
          /\ status' = r.status
          /\ collected' = IF r.status = "running" THEN Forwarded(r.rows, watermark) ELSE r.rows
          /\ closed_now' = r.closed
          /\ fed' = r.fed
          /\ restored' = r.restored
    /\ ctx_watermark' = watermark
    /\ ctx_last_present' = IF IsEventTime(watermark) THEN watermark.t ELSE ctx_last_present
    /\ done' = DoneNow
    /\ last' = [op |-> "handle_watermark", late |-> {}, keys |-> {}]
    /\ UNCHANGED <<width, receiver, table, ckpt, feeds, rows_in, restarts>>

\* ---------------------------------------------------------------- handle_checkpoint
\* ctx.watermark() with EventTime(t) mapped to Some(t) and Idle to None, flattened
CheckpointWatermark(watermark) == IF watermark.kind = "EventTime" THEN watermark.t ELSE NoneT

\* key as i64 * (self.width.as_nanos() as i64)
BucketNanos(key, w) == key * w

\* columns.push(timestamp_array): the partial batch with the bin start as last column
StateBatch(batch, bucket_nanos) == Append(batch, bucket_nanos)

RECURSIVE InsertAll(_, _, _)
InsertAll(tbl, bucket_nanos, batches) ==
    IF batches = <<>> THEN tbl
    ELSE InsertAll(TableInsert(tbl, bucket_nanos, StateBatch(Head(batches), bucket_nanos)),
                   bucket_nanos, Tail(batches))

\* Variant: the drained aggregator is left in the entry instead of being taken out.
FlushKey_KeepsAggregator(st, key) ==
    IF key \notin DOMAIN st.execs \/ st.execs[key].active_exec = NoChan
    THEN [st EXCEPT !.status = "panicked"]
    ELSE LET c == st.execs[key].active_exec
             drained == PartialAggregate(st.chans[c])
         IN [st EXCEPT !.execs[key] = [active_exec |-> c,
                                       finished_batches |-> @.finished_batches \o drained],
                       !.chans[c] = <<>>,
                       !.table = InsertAll(@, BucketNanos(key, width), drained)]

\* Variant: the drained batches go to the table only, not to the bin's buffered set.
FlushKey_StoreOnly(st, key) ==
    IF key \notin DOMAIN st.execs \/ st.execs[key].active_exec = NoChan
    THEN [st EXCEPT !.status = "panicked"]
    ELSE LET c == st.execs[key].active_exec
             drained == PartialAggregate(st.chans[c])
         IN [st EXCEPT !.execs[key] = [active_exec |-> NoChan,
                                       finished_batches |-> @.finished_batches],
                       !.chans = Remove(@, c),
                       !.table = InsertAll(@, BucketNanos(key, width), drained)]

\* The body of the loop over the keys, for one key; the senders are cleared by then.
FlushKey(st, key) ==
    IF key \notin DOMAIN st.execs \/ st.execs[key].active_exec = NoChan
    THEN [st EXCEPT !.status = "panicked"]
    ELSE LET c == st.execs[key].active_exec
             drained == PartialAggregate(st.chans[c])
         IN [st EXCEPT !.execs[key] = [active_exec |-> NoChan,
                                       finished_batches |-> @.finished_batches \o drained],
                       !.chans = Remove(@, c),
                       !.table = InsertAll(@, BucketNanos(key, width), drained)]

RECURSIVE FlushKeys(_, _)
FlushKeys(st, keys) ==
    IF keys = {} \/ st.status # "running" THEN st
    ELSE FlushKeys(FlushKey(st, Min(keys)), keys \ {Min(keys)})

\* Variant: the loop runs over every bin of the registry, live channel or not.
HandleCheckpointResult_AllBins ==
    LET keys == DOMAIN execs
        watermark == CheckpointWatermark(ctx_watermark)
        st == FlushKeys([execs |-> execs, chans |-> chans, table |-> table,
                         status |-> "running"], keys)
    IN IF st.status = "running"
       THEN [st EXCEPT !.table = TableFlush(@, watermark, width)]
       ELSE st

HandleCheckpointResult ==
    LET keys == DOMAIN senders
        watermark == CheckpointWatermark(ctx_watermark)
        st == FlushKeys([execs |-> execs, chans |-> chans, table |-> table,
                         status |-> "running"], keys)
    IN IF st.status = "running"
       THEN [st EXCEPT !.table = TableFlush(@, watermark, width)]
       ELSE st

HandleCheckpoint ==
    /\ status = "running"
    /\ LET r == HandleCheckpointResult
       IN /\ execs' = r.execs
          /\ chans' = r.chans
          /\ table' = r.table
          /\ status' = r.status
          /\ ckpt' = IF r.status = "running"
                     THEN [fed |-> fed, done |-> DoneNow, last_present |-> ctx_last_present]
                     ELSE ckpt
    /\ senders' = EmptyMap
    /\ collected' = <<>>
    /\ closed_now' = <<>>
    /\ done' = DoneNow
    /\ last' = [op |-> "handle_checkpoint", late |-> {}, keys |-> DOMAIN senders]
    /\ UNCHANGED <<width, receiver, final_batches_passer, ctx_watermark, ctx_last_present,
                   fed, restored, feeds, rows_in, restarts>>

\* ---------------------------------------------------------------- on_start
\* The loop over table.all_batches_for_watermark(watermark), in key order.
RECURSIVE LoadAll(_, _, _)
LoadAll(ex, view, keys) ==
    IF keys = {} THEN ex
    ELSE LET timestamp == Min(keys)
             bin == time_to_bin(timestamp, width)
             ex0 == EntryOrDefault(ex, bin)
         IN LoadAll([ex0 EXCEPT ![bin].finished_batches = @ \o view[timestamp]],
                    view, keys \ {timestamp})

OnStartResult(watermark) ==
    LET view == AllBatchesForWatermark(table, watermark, width)
    IN LoadAll(EmptyMap, view, DOMAIN view)

\* The job restarts from its last checkpoint: a fresh instance (from_config) whose
\* on_start reads the table as of the watermark the checkpoint recorded.
Restart ==
    /\ restarts < MaxRestarts
    /\ restarts' = restarts + 1
    /\ execs' = OnStartResult(ckpt.last_present)
    /\ senders' = EmptyMap
    /\ chans' = EmptyMap
    /\ receiver' = NoChan
    /\ final_batches_passer' = <<>>
    /\ ctx_watermark' = IF ckpt.last_present = NoneT THEN NoWatermark
                        ELSE EventTime(ckpt.last_present)
    /\ ctx_last_present' = ckpt.last_present
    /\ status' = "running"
    /\ collected' = <<>>
    /\ fed' = [b \in DOMAIN ckpt.fed \cap DOMAIN execs' |-> ckpt.fed[b]]
    /\ restored' = DOMAIN execs'
    /\ done' = {}
    /\ closed_now' = <<>>
    /\ last' = [op |-> "on_start", late |-> {}, keys |-> {}]
    /\ UNCHANGED <<width, table, ckpt, feeds, rows_in>>

\* ---------------------------------------------------------------- specification
Init ==
    /\ width \in 1..MaxWidth
    /\ execs = EmptyMap
    /\ senders = EmptyMap
    /\ chans = EmptyMap
    /\ receiver = NoChan
    /\ final_batches_passer = <<>>
    /\ table = EmptyMap
    /\ ctx_watermark = NoWatermark
    /\ ctx_last_present = NoneT
    /\ status = "running"
    /\ collected = <<>>
    /\ fed = EmptyMap
    /\ restored = {}
    /\ done = {}
    /\ closed_now = <<>>
    /\ ckpt = [fed |-> EmptyMap, done |-> {}, last_present |-> NoneT]
    /\ feeds = 0
    /\ rows_in = 0
    /\ restarts = 0
    /\ last = [op |-> "from_config", late |-> {}, keys |-> {}]

Next ==
    \/ \E batch \in Batches : ProcessBatch(batch)
    \/ \E watermark \in Watermarks : HandleWatermark(watermark)
    \/ HandleCheckpoint
    \/ Restart

Spec == Init /\ [][Next]_vars

\* ---------------------------------------------------------------- properties
LastWas(op) == last.op = op

RECURSIVE InsertRow(_, _)
InsertRow(rows, r) ==
    IF rows = <<>> THEN <<r>>
    ELSE IF r.ts < Head(rows).ts \/ (r.ts = Head(rows).ts /\ r.val <= Head(rows).val)
    THEN <<r>> \o rows
    ELSE <<Head(rows)>> \o InsertRow(Tail(rows), r)

\* The rows in one fixed order, whatever order they arrived in.
RECURSIVE SortRows(_)
SortRows(rows) == IF rows = <<>> THEN <<>> ELSE InsertRow(SortRows(Tail(rows)), Head(rows))

\* What one partial aggregation over the rows, never checkpointed, finishes to.
Uninterrupted(rows) == FinishAggregate(PartialAggregate(<<rows>>))

\* C1: a bin finalized by handle_watermark(EventTime W) has window_end = (bin + 1) * width
\* at or below W, so no bin with id >= floor(W / width) is finalized by that call.
C1_FinalizedBehindWatermark ==
    \A i \in 1..Len(closed_now) :
        /\ (closed_now[i].bin + 1) * width <= closed_now[i].wm
        /\ closed_now[i].bin < closed_now[i].wm \div width

\* A call closed a bin and left a later bin, not yet behind the watermark, in the registry.
C1_Witness ==
    /\ LastWas("handle_watermark")
    /\ closed_now # <<>>
    /\ DOMAIN execs # {}

\* C2: over any sequence of calls on one instance the finalized bins only grow and no
\* bin-id is finalized more than once.
C2_NoBinFinalizedTwice ==
    /\ \A i \in 1..Len(closed_now) : closed_now[i].bin \notin done
    /\ \A i, j \in 1..Len(closed_now) : i # j => closed_now[i].bin # closed_now[j].bin

\* C3: the bin-ids one instance finalizes, in the order it finalizes them, never decrease.
C3_FinalizedInOrder ==
    \A i \in 1..Len(closed_now) :
        /\ \A b \in done : b <= closed_now[i].bin
        /\ \A j \in 1..(i - 1) : closed_now[j].bin <= closed_now[i].bin

\* C4: checkpoint, restart, then the watermark past the bin's end gives the aggregate of
\* the run that never checkpointed: on_start holds every bin the checkpoint flushed with
\* partial batches that finish to the aggregate of its rows, and a reloaded bin finalizes
\* to the aggregate of all the rows dispatched to it.
C4_RestartRoundTrip ==
    /\ LastWas("on_start") =>
           \A b \in DOMAIN ckpt.fed :
               /\ b \in DOMAIN execs
               /\ FinishAggregate(execs[b].finished_batches) = Uninterrupted(ckpt.fed[b])
    /\ \A i \in 1..Len(closed_now) :
           closed_now[i].restored => closed_now[i].agg = Uninterrupted(closed_now[i].fed)

\* C5: after a checkpoint and a restart from it, no bin finalized before that
\* checkpoint is in the registry again.
C5_NoFinalizedBinReloaded ==
    LastWas("on_start") => DOMAIN execs \cap ckpt.done = {}

\* C6: a row for a bin already finalized and removed makes process_batch fail; it is
\* neither dropped nor allowed to open a fresh registry entry for that bin.
C6_LateRowIsFatal ==
    (LastWas("process_batch") /\ last.late # {}) =>
        /\ status = "panicked"
        /\ last.late \cap DOMAIN execs = {}

\* The aggregates of the bins the last callback closed, in the order it closed them.
RECURSIVE ClosedAggs(_)
ClosedAggs(entries) ==
    IF entries = <<>> THEN <<>> ELSE Head(entries).agg \o ClosedAggs(Tail(entries))

\* The position in collected of the first row of the i-th closed bin, minus one.
RECURSIVE RowOffset(_)
RowOffset(i) == IF i <= 1 THEN 0 ELSE RowOffset(i - 1) + Len(closed_now[i - 1].agg)

\* C7: handle_watermark forwards its watermark exactly once, unchanged, and only after
\* every final row of every bin the call finalized.
C7_WatermarkForwardedLast ==
    LastWas("handle_watermark") =>
        LET n == Len(collected)
        IN /\ n = Len(ClosedAggs(closed_now)) + 1
           /\ collected[n].kind = "watermark"
           /\ collected[n].watermark = ctx_watermark
           /\ \A i \in 1..(n - 1) :
                  collected[i].kind = "batch" /\ collected[i].agg = ClosedAggs(closed_now)[i]

\* An event-time watermark closed two bins in one call.
C7_Witness ==
    /\ LastWas("handle_watermark")
    /\ ctx_watermark.kind = "EventTime"
    /\ Len(closed_now) = 2
    /\ Len(collected) = 3

\* C8: every final row of bin b carries window_start = b * width,
\* window_end = b * width + width and the event time window_end - 1.
C8_WindowMetadata ==
    \A i \in 1..Len(closed_now) :
        \A k \in 1..Len(closed_now[i].agg) :
            LET row == collected[RowOffset(i) + k]
                b == closed_now[i].bin
            IN /\ row.kind = "batch"
               /\ row.window.start = b * width
               /\ row.window.end = b * width + width
               /\ row.timestamp = row.window.end - 1

\* A bin other than bin 0, reloaded by on_start after a checkpoint, emitted its row.
C8_Witness ==
    \E i \in 1..Len(closed_now) :
        /\ closed_now[i].bin >= 1
        /\ closed_now[i].restored
        /\ Len(closed_now[i].agg) = 1

\* C9: handle_watermark(Idle) finalizes no bin, emits no row, leaves the registry, the
\* feed channels and the table unchanged, and forwards Idle unchanged.
C9_IdlePassesThrough ==
    [][(last'.op = "handle_watermark" /\ ctx_watermark' = Idle) =>
           /\ UNCHANGED <<execs, senders, chans, table>>
           /\ closed_now' = <<>>
           /\ collected' = <<WatermarkSignal(Idle)>>]_vars

\* An Idle watermark was handled while a bin with a live aggregator was in the registry.
C9_Witness ==
    /\ LastWas("handle_watermark")
    /\ ctx_watermark = Idle
    /\ \E b \in DOMAIN execs : execs[b].active_exec # NoChan

\* C10: the finalized aggregate of a bin fed by process_batch does not depend on the
\* order its rows arrived in, nor on how they were split into batches: it is the
\* aggregate of the same rows taken in one fixed order.
C10_OrderIndependent ==
    \A i \in 1..Len(closed_now) :
        ~closed_now[i].restored =>
            closed_now[i].agg = Uninterrupted(SortRows(closed_now[i].fed))

\* A bin closed whose two rows arrived in the other order.
C10_Witness ==
    \E i \in 1..Len(closed_now) :
        /\ ~closed_now[i].restored
        /\ Len(closed_now[i].fed) = 2
        /\ closed_now[i].fed # SortRows(closed_now[i].fed)

\* C11: handle_checkpoint called while no bin has a feed-channel sender emits nothing,
\* inserts nothing into the table and leaves the registry unchanged; the table after
\* the call is the table before it, flushed at the current watermark.
C11_CheckpointWithoutLiveChannels ==
    [][(last'.op = "handle_checkpoint" /\ senders = EmptyMap) =>
           /\ status' = "running"
           /\ collected' = <<>>
           /\ execs' = execs
           /\ chans' = chans
           /\ table' = TableFlush(table, CheckpointWatermark(ctx_watermark), width)]_vars

\* A checkpoint found no sender while the registry held a bin with buffered batches.
C11_Witness ==
    /\ LastWas("handle_checkpoint")
    /\ last.keys = {}
    /\ status = "running"
    /\ \E b \in DOMAIN execs : execs[b].finished_batches # <<>>

\* C12: handle_watermark with an event-time watermark whose close bin-id is at or below
\* a bin this instance already finalized and removed ends in a fatal error; the
\* watermark is not processed and forwarded.
C12_RegressingWatermarkIsFatal ==
    (/\ LastWas("handle_watermark")
     /\ IsEventTime(ctx_watermark)
     /\ \E b \in done : WatermarkBin(ctx_watermark.t, width) <= b) =>
        /\ status = "panicked"
        /\ \A i \in 1..Len(collected) : collected[i].kind # "watermark"

\* The partial batches the live aggregator of bin b yields when drained now.
Drained(b) == PartialAggregate(chans[senders[b]])

\* The same batches as the table holds them: the bin start as one more column.
Stamped(b) == [i \in 1..Len(Drained(b)) |-> Append(Drained(b)[i], b * width)]

\* The table with the stamped batches of every bin that has a sender appended under
\* the key bin_id * width.
TableWithDrained ==
    LET live == {b \in DOMAIN senders : Drained(b) # <<>>}
    IN [k \in DOMAIN table \cup {b * width : b \in live} |->
           (IF k \in DOMAIN table THEN table[k] ELSE <<>>)
           \o (IF \E b \in live : b * width = k
               THEN Stamped(CHOOSE b \in live : b * width = k) ELSE <<>>)]

\* C13: handle_checkpoint returns with every bin that had a sender still in the
\* registry, without sender and without live aggregator, its drained partial batches
\* appended to its buffered set and inserted into the table under bin_id * width
\* before the flush; no bin leaves the registry.
C13_CheckpointKeepsBins ==
    [][last'.op = "handle_checkpoint" =>
           /\ status' = "running"
           /\ DOMAIN execs' = DOMAIN execs
           /\ senders' = EmptyMap
           /\ \A b \in DOMAIN senders :
                  /\ execs'[b].active_exec = NoChan
                  /\ senders[b] \notin DOMAIN chans'
                  /\ execs'[b].finished_batches = execs[b].finished_batches \o Drained(b)
           /\ table' = TableFlush(TableWithDrained, CheckpointWatermark(ctx_watermark), width)]_vars

\* A checkpoint drained a bin that an earlier checkpoint had drained already.
C13_Witness ==
    /\ LastWas("handle_checkpoint")
    /\ \E b \in last.keys :
           /\ b * width \in DOMAIN table
           /\ Len(table[b * width]) = 2
           /\ Len(execs[b].finished_batches) = 2

\* C14: on_start on a fresh instance right after handle_checkpoint, at the same
\* watermark, rebuilds the registry the checkpoint left in memory: the same bin-ids
\* (every stored key bin_id * width maps back to bin_id through time_to_bin), each bin
\* with the same buffered partial batches, no live aggregator and no sender.
C14_RecoveryRebuildsRegistry ==
    [][(last.op = "handle_checkpoint" /\ status = "running" /\ last'.op = "on_start") =>
           /\ \A b \in DOMAIN execs : time_to_bin(BucketNanos(b, width), width) = b
           /\ DOMAIN execs' = DOMAIN execs
           /\ senders' = EmptyMap
           /\ \A b \in DOMAIN execs \cap DOMAIN execs' :
                  /\ execs'[b].active_exec = NoChan
                  /\ execs'[b].finished_batches = execs[b].finished_batches]_vars

\* C15: whatever process_batch and handle_checkpoint calls came before a bin closes on
\* the instance that opened it, the partial batches handed to the finish execution
\* account for every row dispatched to the bin exactly once: their counts add up to
\* the number of rows, their sums to the sum of the rows, and so does the final row.
C15_EveryRecordOnce ==
    \A i \in 1..Len(closed_now) :
        ~closed_now[i].restored =>
            LET rows == closed_now[i].fed
            IN /\ closed_now[i].agg = <<[count |-> Len(rows), sum |-> SumVals(rows)]>>
               /\ i = Len(closed_now) =>
                      /\ MergeCount(final_batches_passer) = Len(rows)
                      /\ MergeSum(final_batches_passer) = SumVals(rows)

\* A bin closed with one batch a checkpoint had drained and one from the channel
\* created for the input that came after the checkpoint.
C15_Witness ==
    /\ LastWas("handle_watermark")
    /\ closed_now # <<>>
    /\ ~closed_now[Len(closed_now)].restored
    /\ Len(closed_now[Len(closed_now)].fed) = 2
    /\ Len(final_batches_passer) = 2

\* The upstream keeps its word: every row of a batch is above the last event-time
\* watermark handled, and event-time watermarks do not decrease.
OrderedBatch(batch) == \A i \in 1..Len(batch) : batch[i].ts > ctx_last_present

OrderedWatermark(watermark) == IsEventTime(watermark) => watermark.t >= ctx_last_present

NextOrdered ==
    \/ \E batch \in Batches : OrderedBatch(batch) /\ ProcessBatch(batch)
    \/ \E watermark \in Watermarks : OrderedWatermark(watermark) /\ HandleWatermark(watermark)
    \/ HandleCheckpoint
    \/ Restart

SpecOrdered == Init /\ [][NextOrdered]_vars

\* C16: with non-decreasing watermarks and every row above the last watermark handled,
\* every final row handle_watermark emits has an event time strictly above every
\* event-time watermark forwarded before it (the last one handled is the largest).
C16_RowsAboveForwardedWatermarks ==
    [][last'.op = "handle_watermark" =>
           \A i \in 1..Len(collected') :
               collected'[i].kind = "batch" => collected'[i].timestamp > ctx_last_present]_vars

\* The bins of the registry that hold a live aggregator execution.
LiveBins == {b \in DOMAIN execs : execs[b].active_exec # NoChan}

\* C17: between callbacks the bins with a registered sender are exactly the registry
\* bins with a live aggregator, each aggregator reads the channel of its own bin's
\* sender and no two bins share a channel, so none of the lookups "should have sender
\* for bin", execs.get_mut(key).unwrap() and "this should be active" has failed.
C17_SendersMatchLiveAggregators ==
    /\ status = "running"
    /\ DOMAIN senders = LiveBins
    /\ DOMAIN senders \subseteq DOMAIN execs
    /\ \A b \in DOMAIN senders : execs[b].active_exec = senders[b]
    /\ \A b, c \in DOMAIN senders : b # c => senders[b] # senders[c]
    /\ DOMAIN chans = {senders[b] : b \in DOMAIN senders}

\* The registry holds a bin with a live aggregator next to a bin that kept only the
\* batches a checkpoint drained.
C17_Witness ==
    \E b, c \in DOMAIN execs :
        /\ b \in DOMAIN senders
        /\ c \notin DOMAIN senders
        /\ execs[c].finished_batches # <<>>

\* C18: handle_watermark(EventTime W) returns with no bin below floor(W / width) in the
\* registry: the bins it finalized are exactly the registry bins whose window_end is
\* at or below W, and the others stay.
C18_AllBinsBehindWatermarkClosed ==
    [][(last'.op = "handle_watermark" /\ IsEventTime(ctx_watermark')) =>
           LET W == ctx_watermark'.t
               behind == {b \in DOMAIN execs : (b + 1) * width <= W}
           IN /\ status' = "running"
              /\ {closed_now'[i].bin : i \in 1..Len(closed_now')} = behind
              /\ DOMAIN execs' = DOMAIN execs \ behind
              /\ \A b \in DOMAIN execs' : b >= WatermarkBin(W, width)]_vars

\* One call closed a bin with a live aggregator and a bin on_start had reloaded.
C18_Witness ==
    /\ LastWas("handle_watermark")
    /\ \E i, j \in 1..Len(closed_now) :
           /\ closed_now[i].restored
           /\ ~closed_now[j].restored

\* C19: handle_watermark and handle_checkpoint drain an aggregator only after its bin's
\* sender is removed and dropped: neither call is left waiting on a channel that still
\* has a sender, both return, and every channel they drained is consumed and has no
\* sender afterwards.
C19_DrainsTerminate ==
    [][last'.op \in {"handle_watermark", "handle_checkpoint"} =>
           LET drained == {b \in LiveBins :
                              b \notin DOMAIN execs' \/ execs'[b].active_exec = NoChan}
           IN /\ status' # "blocked"
              /\ \A b \in drained :
                     /\ b \notin DOMAIN senders'
                     /\ ~HasSender(senders', execs[b].active_exec)
                     /\ execs[b].active_exec \notin DOMAIN chans']_vars

\* A checkpoint drained the live aggregators of two bins.
C19_Witness ==
    /\ LastWas("handle_checkpoint")
    /\ status = "running"
    /\ Cardinality(last.keys) = 2

\* C20: nothing leaks from one bin to another through the two hand-off slots. The
\* receiver slot is empty between callbacks and the channel every live aggregator
\* reads holds rows of its own bin only; the finish slot holds the batches of the
\* bin finalized last and no other, and every final row counts its own bin's rows.
C20_NoCrossBinLeakage ==
    /\ receiver = NoChan
    /\ \A b \in LiveBins :
           LET rows == Flatten(chans[execs[b].active_exec])
           IN \A i \in 1..Len(rows) : BinningFunction(rows[i].ts, width) = b
    /\ (closed_now # <<>> /\ status = "running") =>
           FinishAggregate(final_batches_passer) = closed_now[Len(closed_now)].agg
    /\ \A i \in 1..Len(closed_now) :
           ~closed_now[i].restored =>
               /\ Len(closed_now[i].agg) = 1
               /\ closed_now[i].agg[1].count = Len(closed_now[i].fed)

\* One batch created the aggregators of two bins, one right after the other.
C20_Witness ==
    /\ LastWas("process_batch")
    /\ feeds = 1
    /\ Cardinality(LiveBins) = 2

====
